---- MODULE Spec2Model ----
(***************************************************************************)
(* A model of dabble's filesystem backend (dabble/backends/fs.py): three   *)
(* line-oriented JSON logs per storage directory (tests, results, alts),   *)
(* appended to under a FileLock and scanned without any lock.              *)
(*                                                                         *)
(* A process is a single-threaded interpreter with its own module global   *)
(* `lock`.  A file is a sequence of chunks, one chunk per write(2) that    *)
(* reached it; a serialized line reaches the file in one chunk or in two   *)
(* (head, tail), as the buffered file object decides.                      *)
(***************************************************************************)
EXTENDS Integers, Sequences, FiniteSets, TLC

\* ------------------------------------------------------------------ bounds
NumProcs == 2
MaxAppends == 2
MaxEvents == 3
MaxChunks == 3

Procs == 1..NumProcs
Dirs == {"d1", "d2"}

\* Arguments the callers of the concurrent specification choose from.
TestNames == {"x"}
Identities == {"u1"}
AltLists == {<<"A", "B">>, <<"A", "C">>}
AltIndexes == {0, 1}
ActionTags == {"shown"}

\* ------------------------------------------------------------------- paths
tests_path(directory) == <<directory, "tests.dabble">>
results_path(directory) == <<directory, "results.dabble">>
alts_path(directory) == <<directory, "alts.dabble">>
Paths == UNION {{tests_path(d), results_path(d), alts_path(d)} : d \in Dirs}

VARIABLES
    fs,         \* path -> [exists, data]: the files of the storage directories
    lockfile,   \* directory -> the process holding its lock.dabble, or Free
    lock,       \* process -> the directory its module global `lock` is bound to
    storage,    \* process -> the directories it has built an FSResultStorage on
    pc,         \* process -> its position in the call it is making
    call,       \* process -> the filename and data of its append_line call
    result,     \* what the last finished call returned or raised
    appended    \* path -> the lines of the append_line calls that have returned

vars == <<fs, lockfile, lock, storage, pc, call, result, appended>>

Free == 0
NoLock == "None"
None == [none |-> TRUE]
\* A Python value that may be None instead: `existing.get('n')`.
Some(v) == [some |-> v]
NoCall == [none |-> TRUE]
NoFile == [exists |-> FALSE, data |-> <<>>]

\* The outcome of a finished call `op(args)`: the value it returned or the
\* exception it raised.
Returned(op, args, v) == [op |-> op, args |-> args, out |-> "return", val |-> v]
Raised(op, args, e) == [op |-> op, args |-> args, out |-> "raise", exc |-> e]
Pending == [op |-> "none"]

\* ----------------------------------------------------------- serialization
\* json.dumps(line, separators=(',', ':')) + '\n': the text of one line.
json_dumps(line) == [json |-> line]

\* The writes that carry a text to the file: the whole text, or its first
\* bytes and then the rest (which ends with the newline).
WholeChunk(text) == [part |-> "whole", text |-> text]
HeadChunk(text) == [part |-> "head", text |-> text]
TailChunk(text) == [part |-> "tail", text |-> text]

\* A chunk ends a line iff it holds the newline of its text.
EndsLine(chunk) == chunk.part # "head"

\* json.loads(line): the object, when the line is exactly one serialized
\* text; anything else (a cut or merged line) does not parse.
\* (A lenient parser: the first bytes of a text taken for the text.)
JsonLoadsLenient(line) ==
    IF line # <<>>
    THEN [ok |-> TRUE, data |-> line[1].text.json]
    ELSE [ok |-> FALSE]

json_loads(line) ==
    IF Len(line) = 1 /\ line[1].part = "whole"
    THEN [ok |-> TRUE, data |-> line[1].text.json]
    ELSE [ok |-> FALSE]

\* `for line in fp`: the file's bytes cut after each newline; the last line
\* may lack one.
RECURSIVE ReadLines(_)
ReadLines(data) ==
    IF data = <<>> THEN <<>>
    ELSE LET ends == {k \in 1..Len(data) : EndsLine(data[k])}
             n == IF ends = {} THEN Len(data)
                  ELSE CHOOSE k \in ends : \A j \in ends : k <= j
         IN <<SubSeq(data, 1, n)>> \o ReadLines(SubSeq(data, n + 1, Len(data)))

\* ----------------------------------------------------------------- queries
\* (`matches = matches or ...`: one equal key is enough.)
MatchesSomeKey(data, pattern) ==
    \E key \in DOMAIN pattern : key \in DOMAIN data /\ data[key] = pattern[key]

Matches(data, pattern) ==
    \A key \in DOMAIN pattern : key \in DOMAIN data /\ data[key] = pattern[key]

RECURSIVE Yield(_, _)
Yield(lines, pattern) ==
    IF lines = <<>> THEN <<>>
    ELSE LET parsed == json_loads(Head(lines))
             rest == Yield(Tail(lines), pattern)
         IN IF parsed.ok /\ Matches(parsed.data, pattern)
            THEN <<parsed.data>> \o rest
            ELSE rest

\* The query operators read the files of a filesystem state `files`: the
\* operations pass them fs, the state at the moment of the call.
find_lines(files, filename, pattern) ==
    IF files[filename].exists
    THEN Yield(ReadLines(files[filename].data), pattern)
    ELSE <<>>

\* (The scan run to its end: the last matching line, not the first.)
FindLastLine(files, filename, pattern) ==
    LET found == find_lines(files, filename, pattern)
    IN IF found = <<>> THEN None ELSE found[Len(found)]

find_line(files, filename, pattern) ==
    LET found == find_lines(files, filename, pattern)
    IN IF found = <<>> THEN None ELSE found[1]

\* ---------------------------------------------------------------- appends
\* Appends begun so far: every line that has reached a file, and every
\* append_line call still on its way to its first write.
Started ==
    LET Written(path) ==
            Cardinality({k \in 1..Len(fs[path].data) :
                            fs[path].data[k].part \in {"whole", "head"}})
        RECURSIVE Sum(_)
        Sum(S) == IF S = {} THEN 0
                  ELSE LET path == CHOOSE q \in S : TRUE
                       IN Written(path) + Sum(S \ {path})
    IN Sum(Paths)
       + Cardinality({p \in Procs : pc[p] \in {"acquire", "locked", "opened"}})

\* append_line(filename, **line), up to `with lock:`.
append_line(p, filename, line) ==
    /\ Started < MaxAppends
    /\ pc' = [pc EXCEPT ![p] = "acquire"]
    /\ call' = [call EXCEPT ![p] = [filename |-> filename,
                                     data |-> json_dumps(line)]]
    /\ result' = Pending
    /\ UNCHANGED <<fs, lockfile, lock, storage, appended>>

\* `with lock:` entered: FileLock.acquire() returns once no one holds the
\* lock file the global `lock` names.
CanAcquireUnchecked(p) == lock[p] # NoLock

CanAcquire(p) == lock[p] # NoLock /\ lockfile[lock[p]] = Free

EnterLock(p) ==
    /\ pc[p] = "acquire"
    /\ CanAcquire(p)
    /\ lockfile' = [lockfile EXCEPT ![lock[p]] = p]
    /\ pc' = [pc EXCEPT ![p] = "locked"]
    /\ UNCHANGED <<fs, lock, storage, call, result, appended>>

\* file(filename, 'a') and fp.seek(0, SEEK_END): the file now exists.
OpenFile(p) ==
    /\ pc[p] = "locked"
    /\ fs' = [fs EXCEPT ![call[p].filename].exists = TRUE]
    /\ pc' = [pc EXCEPT ![p] = "opened"]
    /\ UNCHANGED <<lockfile, lock, storage, call, result, appended>>

\* (The file opened with 'w' instead of 'a': the write replaces the content.)
WriteBytesTruncating(data, chunk) == <<chunk>>

\* A write(2) on a file opened for appending adds its bytes at the end.
\* The rest of a text written right after its first bytes leaves the same
\* bytes in the file as one write of the whole text.
WriteBytes(data, chunk) ==
    IF /\ chunk.part = "tail"
       /\ data # <<>>
       /\ data[Len(data)] = HeadChunk(chunk.text)
    THEN [data EXCEPT ![Len(data)] = WholeChunk(chunk.text)]
    ELSE Append(data, chunk)

Write(p, chunk, next) ==
    /\ fs' = [fs EXCEPT ![call[p].filename].data = WriteBytes(@, chunk)]
    /\ pc' = [pc EXCEPT ![p] = next]
    /\ UNCHANGED <<lockfile, lock, storage, call, result, appended>>

\* fp.write(data) and the close of fp: the text reaches the file in one
\* write, or in two when the file object flushes in between.
WriteAll(p) ==
    /\ pc[p] = "opened"
    /\ Write(p, WholeChunk(call[p].data), "written")

WriteHead(p) ==
    /\ pc[p] = "opened"
    /\ Write(p, HeadChunk(call[p].data), "partial")

WriteTail(p) ==
    /\ pc[p] = "partial"
    /\ Write(p, TailChunk(call[p].data), "written")

\* (The lookup made again under the lock, after the write: the call fails
\* when an earlier record of the same key differs from its own.)
ExitLockRechecked(p) ==
    /\ pc[p] = "written"
    /\ lockfile' = [lockfile EXCEPT ![lock[p]] = Free]
    /\ pc' = [pc EXCEPT ![p] = "idle"]
    /\ call' = [call EXCEPT ![p] = NoCall]
    /\ LET line == call[p].data.json
           key == [k \in DOMAIN line \ {"a", "n", "c"} |-> line[k]]
       IN IF find_line(fs, call[p].filename, key) # line
          THEN /\ result' = Raised("append_line",
                                   [filename |-> call[p].filename], "Conflict")
               /\ UNCHANGED appended
          ELSE /\ result' = Returned("append_line",
                                     [filename |-> call[p].filename], None)
               /\ appended' = [appended EXCEPT ![call[p].filename] =
                                   Append(@, line)]
    /\ UNCHANGED <<fs, lock, storage>>

\* The end of `with lock:`: the lock is released and append_line returns.
ExitLock(p) ==
    /\ pc[p] = "written"
    /\ lockfile' = [lockfile EXCEPT ![lock[p]] = Free]
    /\ pc' = [pc EXCEPT ![p] = "idle"]
    /\ appended' = [appended EXCEPT ![call[p].filename] =
                        Append(@, call[p].data.json)]
    /\ call' = [call EXCEPT ![p] = NoCall]
    /\ result' = Returned("append_line", [filename |-> call[p].filename], None)
    /\ UNCHANGED <<fs, lock, storage>>

\* An IOError inside `with lock:` leaves both with blocks: the file object,
\* if there is one, is closed, the lock is released by FileLock.__exit__,
\* and append_line raises.
LeaveOnErrorKeepingLock(p) ==
    /\ pc' = [pc EXCEPT ![p] = "idle"]
    /\ call' = [call EXCEPT ![p] = NoCall]
    /\ result' = Raised("append_line", [filename |-> call[p].filename],
                        "IOError")
    /\ UNCHANGED <<fs, lockfile, lock, storage, appended>>

LeaveOnError(p) ==
    /\ lockfile' = [lockfile EXCEPT ![lock[p]] = Free]
    /\ pc' = [pc EXCEPT ![p] = "idle"]
    /\ call' = [call EXCEPT ![p] = NoCall]
    /\ result' = Raised("append_line", [filename |-> call[p].filename],
                        "IOError")
    /\ UNCHANGED <<fs, lock, storage, appended>>

\* file(filename, 'a') raises: nothing is created or written.
FailOpen(p) ==
    /\ pc[p] = "locked"
    /\ LeaveOnError(p)

\* fp.write(data), or the flush when fp is closed, raises: none of the
\* text, or only its first bytes, has reached the file.
FailWrite(p) ==
    /\ pc[p] \in {"opened", "partial"}
    /\ LeaveOnError(p)

\* --------------------------------------------------------- FSResultStorage
Finish(r) ==
    /\ result' = r
    /\ UNCHANGED <<fs, lockfile, lock, storage, pc, call, appended>>

TestConflictNever(existing, alternatives) == FALSE

TestConflictAnyExisting(existing, alternatives) == existing # None

TestConflict(existing, alternatives) ==
    existing # None /\ existing.a # alternatives

save_test(p, directory, test_name, alternatives) ==
    /\ pc[p] = "idle"
    /\ directory \in storage[p]
    /\ LET existing == find_line(fs, tests_path(directory),
                                 [t |-> test_name])
       IN IF TestConflict(existing, alternatives)
          THEN Finish(Raised("save_test",
                             [directory |-> directory, t |-> test_name,
                              a |-> alternatives],
                             "Conflict"))
          ELSE append_line(p, tests_path(directory),
                           [t |-> test_name, a |-> alternatives])

\* (The event checked against the registry first: unknown tests refused.)
RecordRegisteredOnly(p, directory, identity, test_name, alternative, action, completed) ==
    /\ pc[p] = "idle"
    /\ directory \in storage[p]
    /\ IF find_line(fs, tests_path(directory), [t |-> test_name]) = None
       THEN Finish(Raised("record",
                          [directory |-> directory, i |-> identity,
                           t |-> test_name, n |-> alternative],
                          "NotFound"))
       ELSE append_line(p, results_path(directory),
                        [i |-> identity, t |-> test_name, n |-> alternative,
                         a |-> action, c |-> completed])

record(p, directory, identity, test_name, alternative, action, completed) ==
    /\ pc[p] = "idle"
    /\ directory \in storage[p]
    /\ append_line(p, results_path(directory),
                   [i |-> identity, t |-> test_name, n |-> alternative,
                    a |-> action, c |-> completed])

\* (The flag read off the first event of the key, not looked for in all.)
IsCompletedFirstMatch(files, directory, identity, test_name, alternative) ==
    LET first == find_line(files, results_path(directory),
                           [i |-> identity, t |-> test_name,
                            n |-> alternative])
    IN first # None /\ first.c

IsCompletedValue(files, directory, identity, test_name, alternative) ==
    find_line(files, results_path(directory),
              [i |-> identity, t |-> test_name, n |-> alternative,
               c |-> TRUE]) # None

is_completed(p, directory, identity, test_name, alternative) ==
    /\ pc[p] = "idle"
    /\ directory \in storage[p]
    /\ Finish(Returned("is_completed",
                        [directory |-> directory, i |-> identity,
                         t |-> test_name, n |-> alternative],
                        IsCompletedValue(fs, directory, identity, test_name,
                                         alternative)))

AltConflictNever(existing, alternative) == FALSE

AltConflict(existing, alternative) ==
    existing # None /\ existing.n # alternative

set_alternative(p, directory, identity, test_name, alternative) ==
    /\ pc[p] = "idle"
    /\ directory \in storage[p]
    /\ LET existing == find_line(fs, alts_path(directory),
                                 [i |-> identity, t |-> test_name])
       IN IF AltConflict(existing, alternative)
          THEN Finish(Raised("set_alternative",
                             [directory |-> directory, i |-> identity,
                              t |-> test_name, n |-> alternative],
                             "Conflict"))
          ELSE append_line(p, alts_path(directory),
                           [i |-> identity, t |-> test_name,
                            n |-> alternative])

GetAlternativeValue(files, directory, identity, test_name) ==
    LET existing == find_line(files, alts_path(directory),
                              [i |-> identity, t |-> test_name])
    IN IF existing = None THEN None ELSE Some(existing.n)

get_alternative(p, directory, identity, test_name) ==
    /\ pc[p] = "idle"
    /\ directory \in storage[p]
    /\ Finish(Returned("get_alternative",
                        [directory |-> directory, i |-> identity,
                         t |-> test_name],
                        GetAlternativeValue(fs, directory, identity,
                                            test_name)))

\* out['results'][n] on a list of `size` entries: the position (from 1) a
\* Python index selects, or 0 where it raises IndexError.
ListIndex(n, size) ==
    IF 0 <= n /\ n < size THEN n + 1
    ELSE IF -size <= n /\ n < 0 THEN size + n + 1
    ELSE 0

\* The loop of ab_report over the events of the test, in file order.
RECURSIVE Tally(_, _, _, _)
Tally(events, results, a, b) ==
    IF events = <<>> THEN [ok |-> TRUE, results |-> results]
    ELSE LET data == Head(events)
             k == ListIndex(data.n, Len(results))
         IN IF k = 0 THEN [ok |-> FALSE]
            ELSE IF data.a = a
            THEN Tally(Tail(events),
                       [results EXCEPT ![k].attempted = @ \cup {data.i}],
                       a, b)
            ELSE IF data.a = b /\ data.i \in results[k].attempted
            THEN Tally(Tail(events),
                       [results EXCEPT ![k].completed = @ \cup {data.i}],
                       a, b)
            ELSE Tally(Tail(events), results, a, b)

\* (The test looked up in the results log: unknown iff it has no event.)
ReportValueByEvents(files, directory, test_name, a, b) ==
    LET args == [directory |-> directory, t |-> test_name, a |-> a, b |-> b]
    IN IF find_line(files, results_path(directory), [t |-> test_name]) = None
       THEN Raised("ab_report", args, "NotFound")
       ELSE Returned("ab_report", args, None)

ReportValue(files, directory, test_name, a, b) ==
    LET test == find_line(files, tests_path(directory), [t |-> test_name])
        args == [directory |-> directory, t |-> test_name, a |-> a, b |-> b]
    IN IF test = None THEN Raised("ab_report", args, "NotFound")
       ELSE LET empty == [k \in 1..Len(test.a) |->
                             [attempted |-> {}, completed |-> {}]]
                tally == Tally(find_lines(files, results_path(directory),
                                          [t |-> test_name]),
                               empty, a, b)
            IN IF ~tally.ok THEN Raised("ab_report", args, "IndexError")
               ELSE Returned("ab_report", args,
                   [test_name |-> test_name,
                    alternatives |-> test.a,
                    results |-> [k \in 1..Len(test.a) |->
                        [attempted |-> Cardinality(tally.results[k].attempted),
                         completed |-> Cardinality(tally.results[k].completed)]]])

ab_report(p, directory, test_name, a, b) ==
    /\ pc[p] = "idle"
    /\ directory \in storage[p]
    /\ Finish(ReportValue(fs, directory, test_name, a, b))

\* ------------------------------------------------------- the specification
\* Every process has built one FSResultStorage, on directory d1, and no
\* file of the directory exists yet.
Init ==
    /\ fs = [path \in Paths |-> NoFile]
    /\ lockfile = [d \in Dirs |-> Free]
    /\ lock = [p \in Procs |-> "d1"]
    /\ storage = [p \in Procs |-> {"d1"}]
    /\ pc = [p \in Procs |-> "idle"]
    /\ call = [p \in Procs |-> NoCall]
    /\ result = Pending
    /\ appended = [path \in Paths |-> <<>>]

Next ==
    \E p \in Procs :
        \/ \E d \in Dirs, t \in TestNames, alts \in AltLists :
               save_test(p, d, t, alts)
        \/ \E d \in Dirs, i \in Identities, t \in TestNames,
              n \in AltIndexes, a \in ActionTags, c \in BOOLEAN :
               record(p, d, i, t, n, a, c)
        \/ \E d \in Dirs, i \in Identities, t \in TestNames, n \in AltIndexes :
               is_completed(p, d, i, t, n)
        \/ \E d \in Dirs, i \in Identities, t \in TestNames, n \in AltIndexes :
               set_alternative(p, d, i, t, n)
        \/ \E d \in Dirs, i \in Identities, t \in TestNames :
               get_alternative(p, d, i, t)
        \/ \E d \in Dirs, t \in TestNames, a \in ActionTags, b \in ActionTags :
               ab_report(p, d, t, a, b)
        \/ EnterLock(p)
        \/ OpenFile(p)
        \/ WriteAll(p)
        \/ WriteHead(p)
        \/ WriteTail(p)
        \/ ExitLock(p)

Spec == Init /\ [][Next]_vars

\* ------------------------------------------------ the reporter, on any log
\* The logs a sequence of finished save_test and record calls leaves in d1:
\* record does not check its alternative against the test's list, so events
\* carry indexes outside it too.
ReportTests == {"x", "y"}
ReportTags == {"shown", "converted"}
ReportEvents ==
    [i : {"u1", "u2"}, t : {"x"}, n : {0, 1}, a : ReportTags, c : {FALSE}]
    \cup [i : {"u1"}, t : {"x"}, n : {-1, 2}, a : {"shown"}, c : {FALSE}]
    \cup [i : {"u1"}, t : {"y"}, n : {0}, a : {"shown"}, c : {FALSE}]
ReportDefinitions ==
    {<<>>,
     <<[t |-> "x", a |-> <<"A", "B">>]>>,
     <<[t |-> "y", a |-> <<"A">>]>>}

SeqsUpTo(S, n) == UNION {[1..k -> S] : k \in 0..n}

FileOf(lines) ==
    [exists |-> lines # <<>>,
     data |-> [k \in 1..Len(lines) |-> WholeChunk(json_dumps(lines[k]))]]

InitReport ==
    /\ \E tests \in ReportDefinitions, events \in SeqsUpTo(ReportEvents, MaxEvents) :
          /\ fs = [path \in Paths |->
                      IF path = tests_path("d1") THEN FileOf(tests)
                      ELSE IF path = results_path("d1") THEN FileOf(events)
                      ELSE NoFile]
          /\ appended = [path \in Paths |->
                            IF path = tests_path("d1") THEN tests
                            ELSE IF path = results_path("d1") THEN events
                            ELSE <<>>]
    /\ lockfile = [d \in Dirs |-> Free]
    /\ lock = [p \in Procs |-> "d1"]
    /\ storage = [p \in Procs |-> {"d1"}]
    /\ pc = [p \in Procs |-> "idle"]
    /\ call = [p \in Procs |-> NoCall]
    /\ result = Pending

NextReport ==
    \E t \in ReportTests, a \in ReportTags, b \in ReportTags :
        ab_report(1, "d1", t, a, b)

SpecReport == InitReport /\ [][NextReport]_vars

\* ------------------------------------------- appends that may fail, fairly
\* Processes that keep recording events, on a file system whose opens and
\* writes may fail.  The scheduler runs every process: a step of append_line
\* that stays possible is taken in the end.  FileLock.acquire polls the lock
\* file, so a waiting process gets the lock only if it finds it free.
NextFair ==
    \E p \in Procs :
        \/ \E c \in BOOLEAN : record(p, "d1", "u1", "x", 0, "shown", c)
        \/ EnterLock(p)
        \/ OpenFile(p)
        \/ FailOpen(p)
        \/ WriteAll(p)
        \/ WriteHead(p)
        \/ WriteTail(p)
        \/ FailWrite(p)
        \/ ExitLock(p)

Fairness ==
    \A p \in Procs :
        /\ WF_vars(EnterLock(p))
        /\ WF_vars(OpenFile(p) \/ FailOpen(p))
        /\ WF_vars(WriteAll(p) \/ WriteHead(p) \/ WriteTail(p) \/ FailWrite(p))
        /\ WF_vars(ExitLock(p))

SpecFair == Init /\ [][NextFair]_vars /\ Fairness

\* ------------------------------------------ storages on several directories
\* FSResultStorage(directory), the directory existing: the module global
\* `lock` is bound anew, to the lock file of this directory.
FSResultStorage_init(p, directory) ==
    /\ pc[p] = "idle"
    /\ directory \notin storage[p]
    /\ storage' = [storage EXCEPT ![p] = @ \cup {directory}]
    /\ lock' = [lock EXCEPT ![p] = directory]
    /\ UNCHANGED <<fs, lockfile, pc, call, result, appended>>

\* The module has just been imported by every process: lock = None and no
\* storage built yet.
InitDirs ==
    /\ fs = [path \in Paths |-> NoFile]
    /\ lockfile = [d \in Dirs |-> Free]
    /\ lock = [p \in Procs |-> NoLock]
    /\ storage = [p \in Procs |-> {}]
    /\ pc = [p \in Procs |-> "idle"]
    /\ call = [p \in Procs |-> NoCall]
    /\ result = Pending
    /\ appended = [path \in Paths |-> <<>>]

NextDirs ==
    \E p \in Procs :
        \/ \E d \in Dirs : FSResultStorage_init(p, d)
        \/ \E d \in Dirs, c \in BOOLEAN :
               record(p, d, "u1", "x", 0, "shown", c)
        \/ EnterLock(p)
        \/ OpenFile(p)
        \/ WriteAll(p)
        \/ WriteHead(p)
        \/ WriteTail(p)
        \/ ExitLock(p)

SpecDirs == InitDirs /\ [][NextDirs]_vars

\* --------------------------------------------------- the scan, on any file
\* A caller of the module's two scan functions, on a file of d1 holding
\* any sequence of writes: whole lines of several shapes, and the pieces a
\* cut write leaves (first bytes without their newline, or the rest of a
\* line alone).  A file never holds the first bytes of a text right before
\* the rest of the same text: those bytes are the whole line.
ScanRecords ==
    {[i |-> "u1", t |-> "x", n |-> 0, a |-> "shown", c |-> FALSE],
     [i |-> "u1", t |-> "x", n |-> 0, a |-> "shown", c |-> TRUE],
     [i |-> "u2", t |-> "y", n |-> 1, a |-> "shown", c |-> FALSE],
     [t |-> "x", a |-> <<"A", "B">>]}
ScanCut == [i |-> "u1", t |-> "x", n |-> 1, a |-> "shown", c |-> TRUE]
ScanChunks ==
    {WholeChunk(json_dumps(r)) : r \in ScanRecords}
    \cup {HeadChunk(json_dumps(ScanCut)), TailChunk(json_dumps(ScanCut))}
ScanPatterns ==
    {[k \in {} |-> TRUE],
     [t |-> "x"],
     [t |-> "z"],
     [i |-> "u1", t |-> "x"],
     [i |-> "u1", t |-> "x", n |-> 0, c |-> TRUE]}
ScanFiles == {results_path("d1"), tests_path("d1")}

InitScan ==
    /\ \E data \in SeqsUpTo(ScanChunks, MaxChunks) :
          /\ \A k \in 1..(Len(data) - 1) :
                ~(data[k].part = "head" /\ data[k + 1].part = "tail")
          /\ fs = [path \in Paths |->
                      IF path = results_path("d1") /\ data # <<>>
                      THEN [exists |-> TRUE, data |-> data]
                      ELSE NoFile]
    /\ appended = [path \in Paths |-> <<>>]
    /\ lockfile = [d \in Dirs |-> Free]
    /\ lock = [p \in Procs |-> "d1"]
    /\ storage = [p \in Procs |-> {"d1"}]
    /\ pc = [p \in Procs |-> "idle"]
    /\ call = [p \in Procs |-> NoCall]
    /\ result = Pending

\* list(find_lines(filename, **pattern)) and find_line(filename, **pattern).
call_find_lines(filename, pattern) ==
    Finish(Returned("find_lines", [filename |-> filename, pattern |-> pattern],
                    find_lines(fs, filename, pattern)))

call_find_line(filename, pattern) ==
    Finish(Returned("find_line", [filename |-> filename, pattern |-> pattern],
                    find_line(fs, filename, pattern)))

NextScan ==
    \E filename \in ScanFiles, pattern \in ScanPatterns :
        \/ call_find_lines(filename, pattern)
        \/ call_find_line(filename, pattern)

SpecScan == InitScan /\ [][NextScan]_vars

\* ------------------------------------------- scans that run beside appends
\* The bytes of a file, text by text: a whole text is its first bytes
\* followed by its rest, which ends with the newline.
RECURSIVE Bytes(_)
Bytes(data) ==
    IF data = <<>> THEN <<>>
    ELSE (CASE Head(data).part = "whole"
                 -> <<HeadChunk(Head(data).text), TailChunk(Head(data).text)>>
            [] OTHER -> <<Head(data)>>)
         \o Bytes(Tail(data))

\* The line a reader has got, as the writes that would have left it.
Joined(line) ==
    IF Len(line) = 2 /\ line[1].part = "head" /\ line[2].part = "tail"
       /\ line[1].text = line[2].text
    THEN <<WholeChunk(line[1].text)>>
    ELSE line

\* find_lines as the generator it is: the file is opened when the scan
\* starts, if it exists, and each turn of `for line in fp` reads on from the
\* reader's position in the file as the file is at that moment.
find_lines_open(p, filename, pattern) ==
    /\ pc[p] = "idle"
    /\ IF fs[filename].exists
       THEN /\ pc' = [pc EXCEPT ![p] = "scanning"]
            /\ call' = [call EXCEPT ![p] = [filename |-> filename,
                                             pattern |-> pattern,
                                             pos |-> 0, yielded |-> <<>>]]
            /\ result' = Pending
            /\ UNCHANGED <<fs, lockfile, lock, storage, appended>>
       ELSE Finish(Returned("find_lines",
                            [filename |-> filename, pattern |-> pattern],
                            <<>>))

\* One turn of the loop: the next line up to its newline, parsed and
\* matched; or, at the end of the file, the bytes left without a newline
\* (as a last line) and the end of the scan.
find_lines_next(p) ==
    /\ pc[p] = "scanning"
    /\ LET bytes == Bytes(fs[call[p].filename].data)
           rest == SubSeq(bytes, call[p].pos + 1, Len(bytes))
           ends == {k \in 1..Len(rest) : EndsLine(rest[k])}
           n == IF ends = {} THEN Len(rest)
                ELSE CHOOSE k \in ends : \A j \in ends : k <= j
           parsed == json_loads(Joined(SubSeq(rest, 1, n)))
           yielded == IF parsed.ok /\ Matches(parsed.data, call[p].pattern)
                      THEN Append(call[p].yielded, parsed.data)
                      ELSE call[p].yielded
       IN IF ends # {}
          THEN /\ call' = [call EXCEPT ![p].pos = @ + n,
                                       ![p].yielded = yielded]
               /\ UNCHANGED <<fs, lockfile, lock, storage, pc, result,
                              appended>>
          ELSE /\ pc' = [pc EXCEPT ![p] = "idle"]
               /\ call' = [call EXCEPT ![p] = NoCall]
               /\ result' = Returned("find_lines",
                                     [filename |-> call[p].filename,
                                      pattern |-> call[p].pattern],
                                     yielded)
               /\ UNCHANGED <<fs, lockfile, lock, storage, appended>>

ReadPatterns == {[k \in {} |-> TRUE], [c |-> TRUE]}

NextRead ==
    \E p \in Procs :
        \/ \E i \in Identities, t \in TestNames, n \in AltIndexes,
              a \in ActionTags, c \in BOOLEAN :
               record(p, "d1", i, t, n, a, c)
        \/ \E pattern \in ReadPatterns :
               p = 1 /\ find_lines_open(p, results_path("d1"), pattern)
        \/ find_lines_next(p)
        \/ EnterLock(p)
        \/ OpenFile(p)
        \/ WriteAll(p)
        \/ WriteHead(p)
        \/ WriteTail(p)
        \/ ExitLock(p)

SpecRead == Init /\ [][NextRead]_vars

\* ================================================================== claims
AnyLine == <<>>

\* The records a scan of the log finds, in file order.
Log(files, path) == find_lines(files, path, AnyLine)

DirectoryOf(path) == path[1]

InWriteSection(p) == pc[p] \in {"locked", "opened", "partial", "written"}

Count(seq, x) == Cardinality({k \in 1..Len(seq) : seq[k] = x})

AllIdle == \A p \in Procs : pc[p] = "idle"

\* C1: in every reachable state at most one process is between acquiring
\* and releasing the lock with an append to a file of the same directory,
\* whichever of the directory's three files each append targets.
C1_MutualExclusion ==
    \A d \in Dirs :
        Cardinality({p \in Procs : /\ InWriteSection(p)
                                   /\ DirectoryOf(call[p].filename) = d}) <= 1

\* One process is half way through its write while another waits for the
\* lock with an append to another file of the same directory.
C1_Witness ==
    \E p, q \in Procs :
        /\ pc[p] = "partial"
        /\ pc[q] = "acquire"
        /\ DirectoryOf(call[p].filename) = DirectoryOf(call[q].filename)
        /\ call[p].filename # call[q].filename

\* C2: once every appender has finished, each file holds exactly the lines
\* the finished append_line calls wrote: as many lines as calls, each record
\* as often as it was appended, and no line that is not such a record.
C2_NoLostAppends ==
    AllIdle =>
        \A path \in Paths :
            /\ Len(ReadLines(fs[path].data)) = Len(appended[path])
            /\ Len(Log(fs, path)) = Len(appended[path])
            /\ \A k \in 1..Len(appended[path]) :
                   Count(Log(fs, path), appended[path][k])
                       = Count(appended[path], appended[path][k])

\* Two appenders have finished, having written different records to the
\* same file.
C2_Witness ==
    /\ AllIdle
    /\ \E path \in Paths :
          /\ Len(appended[path]) >= 2
          /\ appended[path][1] # appended[path][2]

\* C3: all records of the alts log with the same (identity, test_name)
\* carry the same alternative.
C3_AssignmentUnique ==
    \A d \in Dirs :
        \A j, k \in 1..Len(Log(fs, alts_path(d))) :
            LET r == Log(fs, alts_path(d))
            IN (r[j].i = r[k].i /\ r[j].t = r[k].t) => r[j].n = r[k].n

\* C4: all records of the tests log with the same test_name carry the same
\* list of alternatives.
C4_DefinitionUnique ==
    \A d \in Dirs :
        \A j, k \in 1..Len(Log(fs, tests_path(d))) :
            LET r == Log(fs, tests_path(d))
            IN r[j].t = r[k].t => r[j].a = r[k].a

\* The earliest record of a log that satisfies Has, or None.
First(log, Has(_)) ==
    LET ks == {k \in 1..Len(log) : Has(log[k])}
    IN IF ks = {} THEN None
       ELSE log[CHOOSE k \in ks : \A j \in ks : k <= j]

FirstDefinition(files, d, test_name) ==
    LET Has(r) == r.t = test_name
    IN First(Log(files, tests_path(d)), Has)

FirstAssignment(files, d, identity, test_name) ==
    LET Has(r) == r.i = identity /\ r.t = test_name
    IN First(Log(files, alts_path(d)), Has)

\* C5: a save_test call whose list differs from the alternatives of the
\* first record of the tests log for that test name raises Conflict and
\* appends nothing: no file changes and no append is left under way.
C5_SaveTestConflict ==
    [][\A p \in Procs :
          \A d \in storage[p], t \in TestNames, alts \in AltLists :
             (/\ save_test(p, d, t, alts)
              /\ FirstDefinition(fs, d, t) # None
              /\ FirstDefinition(fs, d, t).a # alts)
             => (/\ result' = Raised("save_test",
                                     [directory |-> d, t |-> t, a |-> alts],
                                     "Conflict")
                 /\ UNCHANGED <<fs, appended, pc, call, lockfile>>)]_vars

\* A save_test call has just raised Conflict on a registered test.
C5_Witness ==
    /\ result.op = "save_test"
    /\ result.out = "raise"
    /\ result.exc = "Conflict"
    /\ FirstDefinition(fs, result.args.directory, result.args.t) # None
    /\ FirstDefinition(fs, result.args.directory, result.args.t).a
           # result.args.a

\* C6: a set_alternative call whose alternative differs from that of the
\* first record of the alts log for (identity, test_name) raises Conflict
\* and appends nothing to any log; get_alternative for the pair gives the
\* alternative assigned first, not the one refused, right after the call
\* and for as long as that failed call is the last one to have finished.
C6_SetAlternativeConflict ==
    [][/\ \A p \in Procs :
             \A d \in storage[p], i \in Identities, t \in TestNames,
                n \in AltIndexes :
                (/\ set_alternative(p, d, i, t, n)
                 /\ FirstAssignment(fs, d, i, t) # None
                 /\ FirstAssignment(fs, d, i, t).n # n)
                => (/\ result' = Raised("set_alternative",
                                        [directory |-> d, i |-> i, t |-> t,
                                         n |-> n],
                                        "Conflict")
                    /\ UNCHANGED <<fs, appended, pc, call, lockfile>>
                    /\ GetAlternativeValue(fs', d, i, t)
                           = Some(FirstAssignment(fs, d, i, t).n))
       /\ result'.op = "set_alternative" =>
             LET d == result'.args.directory
                 i == result'.args.i
                 t == result'.args.t
             IN /\ FirstAssignment(fs', d, i, t) # None
                /\ GetAlternativeValue(fs', d, i, t)
                       = Some(FirstAssignment(fs', d, i, t).n)
                /\ GetAlternativeValue(fs', d, i, t)
                       # Some(result'.args.n)]_vars

\* A set_alternative call has just raised Conflict: the pair is assigned.
C6_Witness ==
    /\ result.op = "set_alternative"
    /\ result.out = "raise"
    /\ result.exc = "Conflict"
    /\ GetAlternativeValue(fs, result.args.directory, result.args.i,
                           result.args.t) # None

\* Every record of the tests log of d for test_name, and every append to
\* that log still under way, carries the list alts.
OnlyDefinition(d, test_name, alts) ==
    /\ \A k \in 1..Len(Log(fs, tests_path(d))) :
           Log(fs, tests_path(d))[k].t = test_name
               => Log(fs, tests_path(d))[k].a = alts
    /\ \A q \in Procs :
           (/\ pc[q] # "idle"
            /\ call[q].filename = tests_path(d)
            /\ call[q].data.json.t = test_name)
           => call[q].data.json.a = alts

Definitions(files, d, test_name) ==
    find_lines(files, tests_path(d), [t |-> test_name])

\* C7: while no other list is registered for the test, every call of
\* save_test with the same list goes through (it never raises), its write
\* adds exactly one record for the test to the tests log, whatever is there
\* already, and when it returns the definition looked up for the test is
\* that list.
C7_IdempotentRegistration ==
    [][\A p \in Procs :
          /\ (pc[p] = "idle" /\ result'.op = "save_test")
             => \A d \in storage[p] :
                   (/\ result'.args.directory = d
                    /\ OnlyDefinition(d, result'.args.t, result'.args.a))
                   => result'.out # "raise"
          /\ (pc[p] = "idle" /\ pc'[p] = "acquire")
             => \A d \in storage[p], t \in TestNames, alts \in AltLists :
                   (/\ save_test(p, d, t, alts)
                    /\ OnlyDefinition(d, t, alts))
                   => call'[p] = [filename |-> tests_path(d),
                                  data |-> json_dumps([t |-> t, a |-> alts])]
          /\ (/\ pc[p] \in {"opened", "partial"}
              /\ pc'[p] = "written"
              /\ call[p].filename = tests_path(DirectoryOf(call[p].filename)))
             => LET d == DirectoryOf(call[p].filename)
                    t == call[p].data.json.t
                    alts == call[p].data.json.a
                    after == Definitions(fs', d, t)
                IN OnlyDefinition(d, t, alts)
                   => (/\ Len(after) = Len(Definitions(fs, d, t)) + 1
                       /\ after[Len(after)].a = alts)
          /\ (/\ pc[p] = "written"
              /\ pc'[p] = "idle"
              /\ call[p].filename = tests_path(DirectoryOf(call[p].filename)))
             => LET d == DirectoryOf(call[p].filename)
                    t == call[p].data.json.t
                    alts == call[p].data.json.a
                IN OnlyDefinition(d, t, alts)
                   => (/\ result'.out = "return"
                       /\ FirstDefinition(fs', d, t) # None
                       /\ FirstDefinition(fs', d, t).a = alts)]_vars

\* The same list has been registered twice for a test, by two calls that
\* have returned: the log holds both records.
C7_Witness ==
    /\ AllIdle
    /\ result.op = "append_line"
    /\ \E d \in Dirs, t \in TestNames :
          /\ Len(Definitions(fs, d, t)) >= 2
          /\ Definitions(fs, d, t)[1] = Definitions(fs, d, t)[2]
          /\ Len(appended[tests_path(d)]) >= 2

\* The identities the claim counts for alternative n of a test: those with
\* an action_a event for (identity, test, n), and those with an action_b
\* event for it that some action_a event for it precedes in the file.
ClaimAttempted(events, test_name, n, a) ==
    {events[k].i : k \in {k \in 1..Len(events) :
        events[k].t = test_name /\ events[k].n = n /\ events[k].a = a}}

ClaimCompleted(events, test_name, n, a, b) ==
    {events[k].i : k \in {k \in 1..Len(events) :
        /\ events[k].t = test_name /\ events[k].n = n /\ events[k].a = b
        /\ \E j \in 1..(k - 1) :
              /\ events[j].t = test_name /\ events[j].n = n
              /\ events[j].a = a /\ events[j].i = events[k].i}}

\* C8: ab_report(test_name, a, b) on a registered test counts, for each
\* alternative, as attempted the identities with an a event for it and as
\* completed the identities with a b event for it that an a event for the
\* same identity and alternative precedes, for every sequence of events.
C8_FunnelCounting ==
    (/\ result.op = "ab_report"
     /\ FirstDefinition(fs, result.args.directory, result.args.t) # None)
    => /\ result.out = "return"
       /\ LET events == Log(fs, results_path(result.args.directory))
              t == result.args.t
          IN \A k \in 1..Len(result.val.alternatives) :
                /\ result.val.results[k].attempted
                     = Cardinality(ClaimAttempted(events, t, k - 1,
                                                  result.args.a))
                /\ result.val.results[k].completed
                     = Cardinality(ClaimCompleted(events, t, k - 1,
                                                  result.args.a,
                                                  result.args.b))

HasCompletedEvent(files, d, identity, test_name, alternative) ==
    \E k \in 1..Len(Log(files, results_path(d))) :
        LET e == Log(files, results_path(d))[k]
        IN /\ e.i = identity /\ e.t = test_name /\ e.n = alternative
           /\ e.c = TRUE

\* C9: is_completed(identity, test_name, alternative) returns true iff the
\* results log holds, at any position, an event of that identity, test and
\* alternative with completed = true; and once true it is true after every
\* step, whatever is recorded for the key afterwards.
C9_CompletionMonotonic ==
    [][/\ (result' # result /\ result'.op = "is_completed")
             => result'.val = HasCompletedEvent(fs, result'.args.directory,
                                                result'.args.i,
                                                result'.args.t,
                                                result'.args.n)
       /\ fs' # fs
             => \A d \in Dirs, i \in Identities, t \in TestNames,
                   n \in AltIndexes :
                   /\ IsCompletedValue(fs', d, i, t, n)
                          = HasCompletedEvent(fs', d, i, t, n)
                   /\ IsCompletedValue(fs, d, i, t, n)
                          => IsCompletedValue(fs', d, i, t, n)]_vars

\* is_completed has returned true for a key whose events are, in file
\* order, one completed and then one not completed.
C9_Witness ==
    /\ result.op = "is_completed"
    /\ result.val = TRUE
    /\ LET events == find_lines(fs, results_path(result.args.directory),
                                [i |-> result.args.i, t |-> result.args.t,
                                 n |-> result.args.n])
       IN /\ Len(events) = 2
          /\ events[1].c /\ ~events[2].c

\* C10: ab_report(test_name, a, b) raises the unknown-test error exactly
\* when the tests log (which may not exist) holds no record for test_name,
\* whatever the results log holds for that name, and the call changes no
\* log.
C10_UnknownTest ==
    [][(result' # result /\ result'.op = "ab_report")
          => /\ (result'.out = "raise" /\ result'.exc = "NotFound")
                  <=> (\A k \in 1..Len(Log(fs, tests_path(
                                               result'.args.directory))) :
                          Log(fs, tests_path(result'.args.directory))[k].t
                              # result'.args.t)
             /\ UNCHANGED <<fs, appended, pc, call, lockfile>>]_vars

\* A report on a test that has events but no definition has failed, the
\* tests file missing or holding other tests only.
C10_Witness ==
    /\ result.op = "ab_report"
    /\ result.out = "raise"
    /\ result.exc = "NotFound"
    /\ find_line(fs, results_path(result.args.directory),
                 [t |-> result.args.t]) # None

IsPrefix(s, t) == Len(s) <= Len(t) /\ SubSeq(t, 1, Len(s)) = s

\* C11: every step leaves each log's bytes and each log's records a prefix
\* of what they are after the step (so the content of any state is a prefix
\* of the content of every later state); the write that completes a line
\* adds exactly its record after the records already there; and a call that
\* finishes without an append changes no file.
C11_AppendOnly ==
    [][/\ fs' # fs =>
             \A path \in Paths :
                 /\ IsPrefix(Bytes(fs[path].data), Bytes(fs'[path].data))
                 /\ IsPrefix(Log(fs, path), Log(fs', path))
                 /\ fs[path].exists => fs'[path].exists
       /\ \A p \in Procs :
             (pc[p] \in {"opened", "partial"} /\ pc'[p] = "written")
             => Log(fs', call[p].filename)
                    = Append(Log(fs, call[p].filename), call[p].data.json)
       /\ (result' # result /\ result'.op \notin {"none", "append_line"})
             => fs' = fs]_vars

\* A record has just been written to a log that held
\* another record already.
C11_Witness ==
    \E p \in Procs :
        /\ pc[p] = "written"
        /\ Len(Log(fs, call[p].filename)) >= 2
        /\ Log(fs, call[p].filename)[2] = call[p].data.json
        /\ Log(fs, call[p].filename)[1] # call[p].data.json

\* C12: a record call never raises, whatever the tests and alts logs hold:
\* it starts the append of its one event to the results log of its
\* directory; the write of that append adds exactly that event to the
\* results log, and no step of it touches the tests or alts log.
C12_RecordUnconditional ==
    [][/\ result'.op = "record" => result'.out # "raise"
       /\ \A p \in Procs :
             /\ \A d \in storage[p], i \in Identities, t \in TestNames,
                   n \in AltIndexes, a \in ActionTags, c \in BOOLEAN :
                   record(p, d, i, t, n, a, c)
                   => /\ call'[p] = [filename |-> results_path(d),
                                     data |-> json_dumps(
                                         [i |-> i, t |-> t, n |-> n,
                                          a |-> a, c |-> c])]
                      /\ pc'[p] = "acquire"
                      /\ fs' = fs
             /\ (/\ pc[p] # "idle"
                 /\ pc'[p] # pc[p]
                 /\ call[p].filename
                        = results_path(DirectoryOf(call[p].filename)))
                => LET d == DirectoryOf(call[p].filename)
                   IN /\ fs'[tests_path(d)] = fs[tests_path(d)]
                      /\ fs'[alts_path(d)] = fs[alts_path(d)]
                      /\ (pc[p] \in {"opened", "partial"}
                            /\ pc'[p] = "written")
                         => Log(fs', results_path(d))
                                = Append(Log(fs, results_path(d)),
                                         call[p].data.json)
                      /\ (pc[p] = "written" /\ pc'[p] = "idle")
                         => result'.out = "return"]_vars

\* A record call has returned, its event in the results log, for a test
\* that is not registered and an identity that has no assignment.
C12_Witness ==
    /\ AllIdle
    /\ result.op = "append_line"
    /\ result.out = "return"
    /\ \E d \in Dirs :
          /\ result.args.filename = results_path(d)
          /\ Len(Log(fs, results_path(d))) >= 1
          /\ Log(fs, tests_path(d)) = <<>>
          /\ Log(fs, alts_path(d)) = <<>>

\* A process is on its way through an append to the tests or the alts log
\* of a directory: its save_test or set_alternative call has passed its
\* lookup.
PastCheck(p) ==
    /\ pc[p] # "idle"
    /\ call[p].filename \in {tests_path(DirectoryOf(call[p].filename)),
                             alts_path(DirectoryOf(call[p].filename))}

\* C13: the lookup of save_test and of set_alternative takes no lock and
\* changes nothing, so a second caller's lookup in the state after it finds
\* what the first found; and a call that has passed its lookup is never
\* looked up again: its write adds its record and it returns normally,
\* whatever records of the same key have reached the log since.  So two
\* calls with different values both succeed when both look up first.
C13_CheckThenAppendRace ==
    [][\A p \in Procs :
          /\ (pc[p] = "idle" /\ pc'[p] = "acquire")
             => /\ fs' = fs
                /\ lockfile' = lockfile
                /\ \A q \in Procs \ {p} : pc'[q] = pc[q]
          /\ (PastCheck(p) /\ pc[p] \in {"opened", "partial"}
                /\ pc'[p] = "written")
             => Log(fs', call[p].filename)
                    = Append(Log(fs, call[p].filename), call[p].data.json)
          /\ (PastCheck(p) /\ pc[p] = "written" /\ pc'[p] = "idle")
             => /\ result'.out = "return"
                /\ appended'[call[p].filename]
                       = Append(appended[call[p].filename],
                                call[p].data.json)]_vars

\* Two save_test calls for the same test with different lists have both
\* returned, and the tests log holds both records.
C13_Witness ==
    /\ AllIdle
    /\ \E d \in Dirs :
          /\ Len(appended[tests_path(d)]) = 2
          /\ Len(Log(fs, tests_path(d))) = 2
          /\ Log(fs, tests_path(d))[1].t = Log(fs, tests_path(d))[2].t
          /\ Log(fs, tests_path(d))[1].a # Log(fs, tests_path(d))[2].a

\* The same for two set_alternative calls for one identity and test.
C13_AssignmentsRaced ==
    /\ AllIdle
    /\ \E d \in Dirs :
          /\ Len(appended[alts_path(d)]) = 2
          /\ Len(Log(fs, alts_path(d))) = 2
          /\ Log(fs, alts_path(d))[1].i = Log(fs, alts_path(d))[2].i
          /\ Log(fs, alts_path(d))[1].t = Log(fs, alts_path(d))[2].t
          /\ Log(fs, alts_path(d))[1].n # Log(fs, alts_path(d))[2].n

\* C14: get_alternative returns none while the alts log has no record of
\* the pair and otherwise the alternative of its earliest record; no step
\* changes the answer once it is a value, whatever is appended for the pair
\* afterwards.  Likewise the definition of a test: save_test refuses a list
\* iff it differs from that of the earliest record of the test, ab_report
\* reports the list of the earliest record, and no step changes the
\* earliest record of a test.
C14_FirstMatchStable ==
    [][/\ (result' # result /\ result'.op = "get_alternative")
             => LET first == FirstAssignment(fs, result'.args.directory,
                                             result'.args.i, result'.args.t)
                IN result'.val = IF first = None THEN None ELSE Some(first.n)
       /\ (result' # result /\ result'.op = "save_test")
             => LET first == FirstDefinition(fs, result'.args.directory,
                                             result'.args.t)
                IN first # None /\ first.a # result'.args.a
       /\ (result' # result /\ result'.op = "ab_report"
             /\ result'.out = "return")
             => LET first == FirstDefinition(fs, result'.args.directory,
                                             result'.args.t)
                IN first # None /\ result'.val.alternatives = first.a
       /\ \A p \in Procs :
             (pc[p] = "idle" /\ pc'[p] = "acquire"
                /\ call'[p].filename \in {tests_path(d) : d \in Dirs})
             => LET first == FirstDefinition(fs,
                                 DirectoryOf(call'[p].filename),
                                 call'[p].data.json.t)
                IN first = None \/ first.a = call'[p].data.json.a
       /\ fs' # fs
             => \A d \in Dirs, t \in TestNames :
                   /\ \A i \in Identities :
                         GetAlternativeValue(fs, d, i, t) # None
                         => GetAlternativeValue(fs', d, i, t)
                                = GetAlternativeValue(fs, d, i, t)
                   /\ find_line(fs, tests_path(d), [t |-> t]) # None
                         => find_line(fs', tests_path(d), [t |-> t])
                                = find_line(fs, tests_path(d), [t |-> t])
                   /\ FirstDefinition(fs, d, t) # None
                         => FirstDefinition(fs', d, t)
                                = FirstDefinition(fs, d, t)]_vars

\* get_alternative has returned the alternative of the first of two
\* records of a pair that carry different alternatives.
C14_Witness ==
    /\ result.op = "get_alternative"
    /\ LET found == find_lines(fs, alts_path(result.args.directory),
                               [i |-> result.args.i, t |-> result.args.t])
       IN /\ Len(found) = 2
          /\ found[1].n # found[2].n
          /\ result.val = Some(found[1].n)

\* The positions of a file's writes that are a well-formed line: a whole
\* text that starts where a line starts.
WellFormedAt(data) ==
    {k \in 1..Len(data) :
        /\ data[k].part = "whole"
        /\ k = 1 \/ data[k - 1].part # "head"}

\* The subsequence of seq at the positions ks, in order.
RECURSIVE Pick(_, _)
Pick(seq, ks) ==
    IF ks = {} THEN <<>>
    ELSE LET k == CHOOSE j \in ks : \A m \in ks : j <= m
         IN <<seq[k]>> \o Pick(seq, ks \ {k})

WellFormedMatches(file, pattern) ==
    Pick([k \in 1..Len(file.data) |-> file.data[k].text.json],
         {k \in WellFormedAt(file.data) :
             \A key \in DOMAIN pattern :
                 /\ key \in DOMAIN file.data[k].text.json
                 /\ file.data[k].text.json[key] = pattern[key]})

C16_MissedLatest ==
    /\ result.op = "find_lines"
    /\ Len(result.val) = 1
    /\ Len(WellFormedMatches(fs[result.args.filename],
                             result.args.pattern)) = 2

\* C17 as stated: under fair scheduling every append that waits for the
\* lock acquires it in the end, writes or fails, and releases the lock.
C17_EveryWaiterAcquires ==
    \A p \in Procs : (pc[p] = "acquire") ~> (pc[p] = "locked")

\* C17, amended: the lock is held only by a process in its write section;
\* every append that holds the lock leaves its write section in the end,
\* its record written or its write failed, and the lock is then free; and
\* while an append waits the lock is taken again and again (there is no
\* deadlock): the waiting append gets it unless others keep taking it.
C17_LockReleased ==
    /\ [](\A d \in Dirs : lockfile[d] # Free => InWriteSection(lockfile[d])
                                               /\ lock[lockfile[d]] = d)
    /\ \A p \in Procs :
          /\ InWriteSection(p) ~> (pc[p] = "idle" /\ lockfile[lock[p]] # p)
          /\ (pc[p] = "acquire")
                ~> (\E q \in Procs : pc[q] = "locked")

\* An append has failed after the first bytes of its text were written,
\* and the lock is free again while another append waits for it.
C17_Witness ==
    /\ result.op = "append_line"
    /\ result.out = "raise"
    /\ \A d \in Dirs : lockfile[d] = Free
    /\ \E path \in Paths :
          /\ fs[path].data # <<>>
          /\ fs[path].data[Len(fs[path].data)].part = "head"
    /\ \E q \in Procs : pc[q] = "acquire"

\* The identities with an event of the test for alternative n and tag.
EventIdentities(events, test_name, n, tag) ==
    {events[k].i : k \in {k \in 1..Len(events) :
        events[k].t = test_name /\ events[k].n = n /\ events[k].a = tag}}

\* C18: for a registered test ab_report returns, whatever alternative
\* values the events of the test carry, one pair per alternative of the
\* first definition, and the pair at position k counts only events whose
\* alternative is k: as attempted the identities with an action_a event
\* for k, as completed none without an action_b event for k.
C18_ReportShape ==
    (/\ result.op = "ab_report"
     /\ FirstDefinition(fs, result.args.directory, result.args.t) # None)
    => /\ result.out = "return"
       /\ LET events == Log(fs, results_path(result.args.directory))
              first == FirstDefinition(fs, result.args.directory,
                                       result.args.t)
          IN /\ result.val.alternatives = first.a
             /\ Len(result.val.results) = Len(first.a)
             /\ \A k \in 1..Len(first.a) :
                   /\ result.val.results[k].attempted
                        = Cardinality(EventIdentities(events, result.args.t,
                                                      k - 1, result.args.a))
                   /\ result.val.results[k].completed
                        <= Cardinality(EventIdentities(events, result.args.t,
                                                       k - 1, result.args.b))

\* C19: in every report ab_report returns, each alternative's completed
\* count is at most its attempted count, both are at most the number of
\* identities that have an event of the test for that alternative, and the
\* completed counts are 0 when action_a = action_b.
C19_ReportBounds ==
    (result.op = "ab_report" /\ result.out = "return")
    => LET events == Log(fs, results_path(result.args.directory))
           Known(n) == {events[j].i : j \in {j \in 1..Len(events) :
                           events[j].t = result.args.t /\ events[j].n = n}}
       IN \A k \in 1..Len(result.val.results) :
             /\ result.val.results[k].completed
                    <= result.val.results[k].attempted
             /\ result.val.results[k].attempted <= Cardinality(Known(k - 1))
             /\ result.val.results[k].completed <= Cardinality(Known(k - 1))
             /\ result.args.a = result.args.b
                    => result.val.results[k].completed = 0

\* C20: whatever storages the processes have built, and in whatever order,
\* a process in the write section of an append to a file of directory D
\* holds the lock file of D, so that at most one process at a time is in
\* the write section of an append to a file of D.
C20_LockOfDirectory ==
    /\ \A p \in Procs :
          InWriteSection(p)
              => lockfile[DirectoryOf(call[p].filename)] = p
    /\ \A d \in Dirs :
          Cardinality({p \in Procs :
                          /\ InWriteSection(p)
                          /\ DirectoryOf(call[p].filename) = d}) <= 1

====
